---- MODULE Spec2Model ----
(***************************************************************************)
(* Model of routes/prgs.py (spotizerr): the status resolver and the job    *)
(* directory / lifecycle endpoints over two backends, the task record      *)
(* gateway (key-value store + task system) and the legacy .prg log files.  *)
(*                                                                         *)
(* Strings that the code inspects character by character (task ids, the    *)
(* raw "current/total" value) are sequences of one-character strings.      *)
(* Python dicts are functions from key strings; a missing key is a key     *)
(* outside DOMAIN.  Rendered messages are real strings.                    *)
(***************************************************************************)
EXTENDS Integers, Sequences, FiniteSets, TLC

VARIABLES
    info,     \* task:<id>:info, the metadata record of each job (None: absent)
    status,   \* task:<id>:status, the event history of each job, oldest first
    files,    \* the files of PRGS_DIR, each a sequence of lines
    rpc,      \* the get_prg_file request in flight: its position and locals
    res,      \* the response of the last finished request
    deleted   \* ids whose delete succeeded and that were not submitted again

vars == <<info, status, files, rpc, res, deleted>>

(***************************************************************************)
(* Bounds                                                                  *)
(***************************************************************************)
\* most events the store of the lifecycle specification holds at a time
MaxStatus == 2
\* longest event history enumerated by the resolver specification
MaxHist == 3
\* most lines of a legacy log file enumerated by the legacy specification
MaxLines == 3

(***************************************************************************)
(* Python values                                                           *)
(***************************************************************************)
None == [none |-> TRUE]
EmptyDict == <<>>

Get(d, k, default) == IF k \in DOMAIN d THEN d[k] ELSE default

Has(d, k) == k \in DOMAIN d

\* dict.get(k) used as a condition on a text field: present and non-empty
TruthyStr(d, k) == Has(d, k) /\ d[k] # ""

Min(a, b) == IF a <= b THEN a ELSE b

(***************************************************************************)
(* Job identifiers                                                         *)
(***************************************************************************)
T1 == <<"t", "1">>
APRG == <<"a", ".", "p", "r", "g">>
DOTS == <<".", ".", "b">>
SLASH == <<"c", "/", "d">>

Ids == {T1, APRG, DOTS, SLASH}

IdOrder == <<T1, DOTS, APRG, SLASH>>

\* identifiers the task system hands out; opaque strings, with or without dots
TaskIds == {T1, DOTS}

\* names a file of the legacy directory can carry (no path separator)
LegacyNames == {APRG}

PrgSuffix == <<".", "p", "r", "g">>

\* '..' in task_id
HasDotDot(s) == \E k \in 1..(Len(s) - 1) : s[k] = "." /\ s[k + 1] = "."

\* '/' in task_id
HasSlash(s) == \E k \in 1..Len(s) : s[k] = "/"

\* task_id.endswith('.prg')
EndsWithPrg(s) ==
    /\ Len(s) >= Len(PrgSuffix)
    /\ SubSeq(s, Len(s) - Len(PrgSuffix) + 1, Len(s)) = PrgSuffix

IdText(s) ==
    CASE s = T1 -> "t1"
      [] s = APRG -> "a.prg"
      [] s = DOTS -> "..b"
      [] s = SLASH -> "c/d"

(***************************************************************************)
(* ProgressState: the status discriminators of the task system             *)
(***************************************************************************)
COMPLETE == "complete"
DONE == "done"
ERROR == "error"
CANCELLED == "cancelled"
TRACK_COMPLETE == "track_complete"
TRACK_PROGRESS == "track_progress"
REAL_TIME == "real_time"

(***************************************************************************)
(* How a handler body ends: it returns a response or raises.               *)
(***************************************************************************)
\* response bodies: an error text, a JSON object, a list of identifiers, a
\* view of a current-system job, a view of a legacy file
Text(t) == [text |-> t]
Json(j) == [json |-> j]
IdList(l) == [ids |-> l]
View(v) == [view |-> v]
Legacy(v) == [legacy |-> v]

Return(code, body) == [k |-> "return", code |-> code, body |-> body]

Raise(exc, msg) == [k |-> "raise", exc |-> exc, msg |-> msg]

\* flask.abort(code, description) raises werkzeug's HTTPException, a
\* subclass of Exception; its text is "<code> <name>: <description>"
abort(code, description) ==
    [k |-> "raise", exc |-> "HTTPException", code |-> code,
     msg |-> (CASE code = 400 -> "400 Bad Request: "
                [] code = 404 -> "404 Not Found: "
                [] OTHER -> "500 Internal Server Error: ") \o description]

\* except FileNotFoundError: abort(404, ...)   except Exception as e: abort(500, ...)
\* (an abort raised inside an except clause leaves the handler)
TryExcept(c) ==
    IF c.k = "return" THEN [code |-> c.code, body |-> c.body]
    ELSE IF c.exc = "FileNotFoundError"
    THEN [code |-> 404, body |-> Text("Task or file not found")]
    ELSE [code |-> 500, body |-> Text("An error occurred: " \o c.msg)]

\* retry/cancel endpoints: except Exception as e: abort(500, ...)
TryExceptAll(c) ==
    IF c.k = "return" THEN [code |-> c.code, body |-> c.body]
    ELSE [code |-> 500, body |-> Text("An error occurred: " \o c.msg)]

(***************************************************************************)
(* The raw "current/total" value of a progress event                       *)
(***************************************************************************)
Str(s) == [str |-> s]
NonStr(n) == [int |-> n]

IsDigit(c) == c \in {"0", "1", "2", "3", "4", "5", "6", "7", "8", "9"}

DigitVal(c) ==
    CASE c = "0" -> 0 [] c = "1" -> 1 [] c = "2" -> 2 [] c = "3" -> 3
      [] c = "4" -> 4 [] c = "5" -> 5 [] c = "6" -> 6 [] c = "7" -> 7
      [] c = "8" -> 8 [] c = "9" -> 9

RECURSIVE DigitsVal(_, _)
DigitsVal(s, acc) ==
    IF s = <<>> THEN acc ELSE DigitsVal(Tail(s), acc * 10 + DigitVal(Head(s)))

\* int(text) for the texts of the model (decimal digits, letters, empty);
\* -1 stands for ValueError
ParseInt(s) ==
    IF s # <<>> /\ \A k \in 1..Len(s) : IsDigit(s[k]) THEN DigitsVal(s, 0) ELSE -1

RECURSIVE SplitFrom(_, _, _)
SplitFrom(s, cur, acc) ==
    IF s = <<>> THEN Append(acc, cur)
    ELSE IF Head(s) = "/" THEN SplitFrom(Tail(s), <<>>, Append(acc, cur))
    ELSE SplitFrom(Tail(s), Append(cur, Head(s)), acc)

\* current_raw.split("/")
Split(s) == SplitFrom(s, <<>>, <<>>)

(***************************************************************************)
(* Event Classifier (current system)                                       *)
(***************************************************************************)
EventType(status_type) ==
    IF status_type \in {COMPLETE, DONE} THEN "complete"
    ELSE IF status_type = TRACK_COMPLETE THEN "track_complete"
    ELSE IF status_type = ERROR THEN "error"
    ELSE IF status_type \in {TRACK_PROGRESS, REAL_TIME} THEN "progress"
    ELSE "update"

Ok(fields) == [k |-> "ok", f |-> fields]

\* a resolver that recomputes the percentage from the track counts
ProgressFieldsBadPercent(last_status) ==
    LET track_info == Get(last_status, "track", "")
        current == Get(last_status, "parsed_current_track", 0)
        total == Get(last_status, "parsed_total_tracks", 0)
    IN  [current_track |-> track_info, track_number |-> current,
         total_tracks |-> total,
         progress_percent |-> Get(last_status, "overall_progress", 0),
         album |-> Get(last_status, "album", "")]
        @@ (IF current # 0 /\ total # 0
            THEN "progress_message" :>
                    ("Downloading track " \o ToString(current) \o "/"
                     \o ToString(total) \o " ("
                     \o ToString((current * 100) \div total)
                     \o "%): " \o track_info)
            ELSE "progress_message" :> ("Downloading: " \o track_info))

\* status "progress" with a track
ProgressFields(last_status) ==
    LET track_info == Get(last_status, "track", "")
        current == Get(last_status, "parsed_current_track", 0)
        total == Get(last_status, "parsed_total_tracks", 0)
        progress == Get(last_status, "overall_progress", 0)
    IN  [current_track |-> track_info, track_number |-> current,
         total_tracks |-> total, progress_percent |-> progress,
         album |-> Get(last_status, "album", "")]
        @@ (IF current # 0 /\ total # 0
            THEN "progress_message" :>
                    ("Downloading track " \o ToString(current) \o "/"
                     \o ToString(total) \o " (" \o ToString(progress)
                     \o "%): " \o track_info)
            ELSE IF track_info # ""
            THEN "progress_message" :> ("Downloading: " \o track_info)
            ELSE EmptyDict)

\* status "real_time"
RealTimeFields(last_status) ==
    LET song == Get(last_status, "song", "")
        percent == Get(last_status, "percent", 0)
    IN  [current_song |-> song, percent |-> percent,
         percentage |-> Get(last_status, "percentage", 0),
         time_elapsed |-> Get(last_status, "time_elapsed", 0),
         progress_message |->
            IF song # ""
            THEN "Downloading " \o song \o " (" \o ToString(percent) \o "%)"
            ELSE "Downloading (" \o ToString(percent) \o "%)"]

\* status "initializing"
InitializingFields(last_status) ==
    LET album == Get(last_status, "album", "")
    IN  "progress_message" :>
            (IF album # "" THEN "Initializing download for " \o album
             ELSE "Initializing download...")

IsProgressWithTrack(e) == Get(e, "status", "") = "progress" /\ TruthyStr(e, "track")

\* for status in reversed(all_statuses): index of the first match, 0 if none
RECURSIVE ScanBack(_, _)
ScanBack(all_statuses, k) ==
    IF k = 0 THEN 0
    ELSE IF IsProgressWithTrack(all_statuses[k]) THEN k
    ELSE ScanBack(all_statuses, k - 1)

\* status "processing": the fields taken from the matching history event.
\* int((current / total) * 100) is the integer quotient for the counts of
\* the model; a zero total raises ZeroDivisionError, which the
\* except (ValueError, IndexError) clause lets through.
TrackFromHistory(st) ==
    LET track_info == Get(st, "track", "")
        current_raw == Get(st, "current_track", Str(<<>>))
        text_only == [current_track |-> track_info,
                      progress_message |-> "Processing: " \o track_info]
    IN  IF Has(current_raw, "str") /\ HasSlash(current_raw.str)
        THEN LET parts == Split(current_raw.str)
                 current == ParseInt(parts[1])
                 total == ParseInt(parts[2])
             IN  IF current = -1 \/ total = -1 THEN Ok(text_only)
                 ELSE IF total = 0
                 THEN Raise("ZeroDivisionError", "division by zero")
                 ELSE Ok([current_track |-> track_info,
                          track_number |-> current,
                          total_tracks |-> total,
                          progress_percent |-> Min((current * 100) \div total, 100),
                          progress_message |->
                             "Processing track " \o ToString(current) \o "/"
                             \o ToString(total) \o ": " \o track_info])
        ELSE Ok(text_only)

ProcessingFields(last_status, all_statuses) ==
    LET k == ScanBack(all_statuses, Len(all_statuses))
    IN  IF k = 0
        THEN Ok("progress_message" :>
                    Get(last_status, "message", "Processing download..."))
        ELSE TrackFromHistory(all_statuses[k])

\* if last_status: ... the event category and the status-specific fields
Classify(last_status, all_statuses) ==
    IF last_status = None THEN Ok(EmptyDict)
    ELSE
    LET status_type == Get(last_status, "status", "unknown")
        event == "event" :> EventType(status_type)
        rest ==
            IF status_type \in {COMPLETE, ERROR, CANCELLED}
            THEN Ok("progress_message" :>
                        Get(last_status, "message", "Download " \o status_type))
            ELSE IF status_type = "progress" /\ TruthyStr(last_status, "track")
            THEN Ok(ProgressFields(last_status))
            ELSE IF status_type = "real_time"
            THEN Ok(RealTimeFields(last_status))
            ELSE IF status_type = "initializing"
            THEN Ok(InitializingFields(last_status))
            ELSE IF status_type = "processing"
            THEN ProcessingFields(last_status, all_statuses)
            ELSE Ok("progress_message" :>
                        Get(last_status, "message", "Status: " \o status_type))
    IN  IF rest.k = "ok" THEN Ok(event @@ rest.f) ELSE rest

\* the response of the current-system branch of get_prg_file
CurrentView(task_id, task_info, last_status, all_statuses) ==
    LET original_request == Get(task_info, "original_request", EmptyDict)
        response ==
            [type |-> Get(task_info, "type", ""),
             name |-> Get(task_info, "name", ""),
             artist |-> Get(task_info, "artist", ""),
             last_line |-> last_status,
             original_request |-> original_request,
             display_title |->
                Get(original_request, "display_title", Get(task_info, "name", "")),
             display_type |->
                Get(original_request, "display_type", Get(task_info, "type", "")),
             display_artist |->
                Get(original_request, "display_artist", Get(task_info, "artist", "")),
             status_count |-> Len(all_statuses),
             task_id |-> IdText(task_id),
             timestamp |-> "time.time()"]
        c == Classify(last_status, all_statuses)
    IN  IF c.k = "ok" THEN Return(200, View(c.f @@ response)) ELSE c

(***************************************************************************)
(* Legacy Log Reader                                                       *)
(***************************************************************************)
JStr(t) == [str |-> t]
JObj(f) == [obj |-> f]
JNull == [null |-> TRUE]
JArr(a) == [arr |-> a]

IsObj(v) == Has(v, "obj")

\* Python truthiness of a decoded JSON value
Truthy(v) ==
    IF Has(v, "obj") THEN DOMAIN v.obj # {}
    ELSE IF Has(v, "str") THEN v.str # ""
    ELSE IF Has(v, "arr") THEN v.arr # <<>>
    ELSE FALSE

\* the line texts the legacy files of the model are made of
LnDisplay == "{\"display_title\":\"X\"}"
LnWrapped == "{\"original_request\":{\"display_title\":\"X\",\"name\":\"N\",\"type\":\"track\"}}"
LnRequest == "{\"name\":\"N\",\"artist\":\"R\"}"
LnOrigStr == "{\"original_request\":\"abc\"}"
LnOrigNull == "{\"original_request\":null}"
LnEmptyObj == "{}"
LnDescr == "{\"type\":\"album\",\"name\":\"Y\",\"artist\":\"Z\"}"
LnComplete == "{\"status\":\"complete\"}"
LnArray == "[1]"
LnGarbage == "not json"

LegacyLines ==
    {LnDisplay, LnWrapped, LnRequest, LnOrigStr, LnOrigNull, LnEmptyObj,
     LnDescr, LnComplete, LnArray, LnGarbage}

Parsed(v) == [ok |-> TRUE, v |-> v]

\* json.loads(line): the decoded value, or ok = FALSE for JSONDecodeError
JsonLoads(line) ==
    CASE line = LnDisplay -> Parsed(JObj([display_title |-> JStr("X")]))
      [] line = LnWrapped ->
            Parsed(JObj([original_request |->
                JObj([display_title |-> JStr("X"), name |-> JStr("N"),
                      type |-> JStr("track")])]))
      [] line = LnRequest -> Parsed(JObj([name |-> JStr("N"), artist |-> JStr("R")]))
      [] line = LnOrigStr -> Parsed(JObj([original_request |-> JStr("abc")]))
      [] line = LnOrigNull -> Parsed(JObj([original_request |-> JNull]))
      [] line = LnEmptyObj -> Parsed(JObj(EmptyDict))
      [] line = LnDescr ->
            Parsed(JObj([type |-> JStr("album"), name |-> JStr("Y"),
                         artist |-> JStr("Z")]))
      [] line = LnComplete -> Parsed(JObj([status |-> JStr("complete")]))
      [] line = LnArray -> Parsed(JArr(<<1>>))
      [] OTHER -> [ok |-> FALSE]

\* lines 200-222: original_request and the display fields from the first line
FirstLine(line) ==
    LET first_line == JsonLoads(line)
        blank == [original_request |-> None, display_title |-> JStr(""),
                  display_type |-> JStr(""), display_artist |-> JStr("")]
    IN  IF ~first_line.ok THEN blank
        ELSE IF ~IsObj(first_line.v) THEN blank
        ELSE LET d == first_line.v.obj
                 original_request ==
                    IF Has(d, "original_request") THEN d["original_request"]
                    ELSE first_line.v
             IN  IF ~Truthy(original_request)
                 THEN [blank EXCEPT !.original_request =
                          IF original_request = JNull THEN None ELSE original_request]
                 \* .get on a value that is no mapping: AttributeError, caught
                 ELSE IF ~IsObj(original_request) THEN blank
                 ELSE LET o == original_request.obj
                      IN  [original_request |-> original_request,
                           display_title |->
                              Get(o, "display_title", Get(o, "name", JStr(""))),
                           display_type |->
                              Get(o, "display_type", Get(o, "type", JStr(""))),
                           display_artist |->
                              Get(o, "display_artist", Get(o, "artist", JStr("")))]

\* lines 224-242: type, name and artist from the second line
SecondLine(lines) ==
    LET blank == [type |-> JStr(""), name |-> JStr(""), artist |-> JStr("")]
    IN  IF Len(lines) > 1
        THEN LET second_line == JsonLoads(lines[2])
             IN  IF second_line.ok /\ IsObj(second_line.v)
                 THEN [type |-> Get(second_line.v.obj, "type", JStr("")),
                       name |-> Get(second_line.v.obj, "name", JStr("")),
                       artist |-> Get(second_line.v.obj, "artist", JStr(""))]
                 ELSE blank
        ELSE blank

\* a reader that never decodes the last line
LastLineRaw(lines) == JStr(lines[Len(lines)])

\* lines 244-249: the last line, decoded or raw
LastLine(lines) ==
    LET last_line_raw == lines[Len(lines)]
        parsed == JsonLoads(last_line_raw)
    IN  IF parsed.ok THEN (IF parsed.v = JNull THEN None ELSE parsed.v)
        ELSE JStr(last_line_raw)

\* the response for the lines of a legacy file
LegacyView(task_id, lines) ==
    IF lines = <<>>
    THEN [type |-> JStr(""), name |-> JStr(""), artist |-> JStr(""),
          last_line |-> None, original_request |-> None,
          display_title |-> JStr(""), display_type |-> JStr(""),
          display_artist |-> JStr(""), task_id |-> IdText(task_id),
          event |-> "unknown"]
    ELSE LET f == FirstLine(lines[1])
             r == SecondLine(lines)
         IN  [type |-> r.type, name |-> r.name, artist |-> r.artist,
              last_line |-> LastLine(lines),
              original_request |-> f.original_request,
              display_title |-> f.display_title,
              display_type |-> f.display_type,
              display_artist |-> f.display_artist,
              task_id |-> IdText(task_id),
              event |-> "unknown",
              timestamp |-> "time.time()"]

NoFile == [exists |-> FALSE, lines |-> <<>>]
File(lines) == [exists |-> TRUE, lines |-> lines]

\* lines 174-263: the legacy branch of get_prg_file, with the file
\* operations it performs
LegacyGet(task_id, fls) ==
    IF HasDotDot(task_id) \/ HasSlash(task_id)
    THEN [c |-> abort(400, "Invalid file request"), fs |-> <<>>]
    ELSE IF ~fls[task_id].exists
    THEN [c |-> Raise("FileNotFoundError", "No such file or directory"),
          fs |-> <<"open">>]
    ELSE [c |-> Return(200, Legacy(LegacyView(task_id, fls[task_id].lines))),
          fs |-> <<"open">>]

\* lines 297-310: the legacy branch of delete_prg_file, with the file
\* operations it performs and whether it removes the file
LegacyDelete(task_id, fls) ==
    IF HasDotDot(task_id) \/ HasSlash(task_id)
    THEN [c |-> abort(400, "Invalid file request"), fs |-> <<>>, remove |-> FALSE]
    ELSE IF ~EndsWithPrg(task_id)
    THEN [c |-> abort(400, "Only .prg files can be deleted"), fs |-> <<>>,
          remove |-> FALSE]
    ELSE IF ~fls[task_id].exists
    THEN [c |-> abort(404, "File not found"), fs |-> <<"isfile">>,
          remove |-> FALSE]
    ELSE [c |-> Return(200, Json([message |->
                    "File " \o IdText(task_id) \o " deleted successfully"])),
          fs |-> <<"isfile", "remove">>, remove |-> TRUE]

(***************************************************************************)
(* Events and metadata the model draws from                                *)
(***************************************************************************)
Raw25 == Str(<<"2", "/", "5">>)
Raw123 == Str(<<"1", "/", "2", "/", "3">>)
Raw20 == Str(<<"2", "/", "0">>)
RawAb == Str(<<"a", "/", "b">>)
Raw52 == Str(<<"5", "/", "2">>)
RawPlain == Str(<<"7">>)

EvTrackProgress ==
    [status |-> "track_progress", track |-> "Song A", parsed_current_track |-> 3,
     parsed_total_tracks |-> 10, overall_progress |-> 25, album |-> "Alb"]
EvTrackProgressMsg ==
    [status |-> "track_progress", track |-> "Song A", parsed_current_track |-> 3,
     parsed_total_tracks |-> 10, overall_progress |-> 25, message |-> "Track 3"]
EvProgress ==
    [status |-> "progress", track |-> "Song A", parsed_current_track |-> 3,
     parsed_total_tracks |-> 10, overall_progress |-> 25, album |-> "Alb",
     current_track |-> Raw25]
EvProgressText == [status |-> "progress", track |-> "Song B", current_track |-> RawPlain]
EvProgress123 == [status |-> "progress", track |-> "Song C", current_track |-> Raw123]
EvProgress20 == [status |-> "progress", track |-> "Song D", current_track |-> Raw20]
EvProgressAb == [status |-> "progress", track |-> "Song E", current_track |-> RawAb]
EvProgressNum == [status |-> "progress", track |-> "Song F", current_track |-> NonStr(3)]
EvProgress52 == [status |-> "progress", track |-> "Song G", current_track |-> Raw52]
EvProgressNoTrack == [status |-> "progress", current_track |-> Raw25]
EvProcessing == [status |-> "processing"]
EvProcessingMsg == [status |-> "processing", message |-> "Working"]
EvComplete == [status |-> "complete"]
EvRealTime == [status |-> "real_time", song |-> "S", percent |-> 50]

ViewEvents ==
    {EvTrackProgress, EvTrackProgressMsg, EvProgress, EvProgressText,
     EvProgress123, EvProgress20, EvProgressAb, EvProgressNum, EvProgress52,
     EvProgressNoTrack, EvProcessing, EvProcessingMsg, EvComplete, EvRealTime}

LifeEvents == {EvProgress, EvProcessing}

Meta1 ==
    [type |-> "album", name |-> "Y", artist |-> "Z",
     original_request |-> [display_title |-> "X"]]
Meta2 == [name |-> "N"]

Metas == {Meta1, Meta2}

BoundedSeq(S, n) == UNION {[1..k -> S] : k \in 0..n}

(***************************************************************************)
(* Task Record Gateway (routes.utils.celery_tasks)                         *)
(***************************************************************************)
get_task_info(task_id) == info[task_id]

get_last_task_status(task_id) ==
    IF status[task_id] = <<>> THEN None ELSE status[task_id][Len(status[task_id])]

get_task_status(task_id) == status[task_id]

get_all_tasks ==
    LET known == SelectSeq(IdOrder, LAMBDA i : info[i] # None)
    IN  [k \in 1..Len(known) |-> [task_id |-> IdText(known[k])]]

OutcomeCancelled == [status |-> "cancelled"]
OutcomeRetried == [status |-> "requeued"]
OutcomeError == [status |-> "error", message |-> "failed"]
GatewayRaises == [raises |-> "Exception"]

\* what cancel_task / retry_task can answer: an outcome, or an exception
cancel_task_results == {OutcomeCancelled, OutcomeError, GatewayRaises}
retry_task_results == {OutcomeRetried, OutcomeError, GatewayRaises}

(***************************************************************************)
(* State                                                                   *)
(***************************************************************************)
Idle == [pc |-> "idle", id |-> <<>>, task_info |-> None, last_status |-> None]

NoRes ==
    [op |-> "none", id |-> <<>>, known |-> FALSE, code |-> 0, body |-> None,
     fs |-> <<>>, gw |-> <<>>, gwout |-> None, scanned |-> <<>>, del |-> {}]

\* the response of one request, with what the request did on the way
Res(op, id, known, r, fs, gw, gwout, scanned, del) ==
    [op |-> op, id |-> id, known |-> known, code |-> r.code, body |-> r.body,
     fs |-> fs, gw |-> gw, gwout |-> gwout, scanned |-> scanned, del |-> del]

Init ==
    /\ info = [i \in Ids |-> None]
    /\ status = [i \in Ids |-> <<>>]
    /\ files \in {[i \in Ids |-> IF i \in LegacyNames THEN f ELSE NoFile] :
                    f \in {NoFile, File(<<>>),
                           File(<<LnDisplay, LnDescr, LnComplete>>)}}
    /\ rpc = Idle
    /\ res = NoRes
    /\ deleted = {}

\* a resolver run over every history of one current-system job
InitView ==
    /\ \E m \in Metas : info = [i \in Ids |-> IF i = T1 THEN m ELSE None]
    /\ \E h \in BoundedSeq(ViewEvents, MaxHist) :
          status = [i \in Ids |-> IF i = T1 THEN h ELSE <<>>]
    /\ files = [i \in Ids |-> NoFile]
    /\ rpc = Idle
    /\ res = NoRes
    /\ deleted = {}

\* a resolver run over every legacy file
InitLegacy ==
    /\ info = [i \in Ids |-> None]
    /\ status = [i \in Ids |-> <<>>]
    /\ \E l \in BoundedSeq(LegacyLines, MaxLines) :
          files = [i \in Ids |-> IF i \in LegacyNames THEN File(l) ELSE NoFile]
    /\ rpc = Idle
    /\ res = NoRes
    /\ deleted = {}

(***************************************************************************)
(* The task system: a job is submitted, its worker appends events          *)
(***************************************************************************)
Submit(i) ==
    /\ i \in TaskIds
    /\ info[i] = None
    /\ ~files[i].exists
    /\ info' = [info EXCEPT ![i] = Meta1]
    /\ status' = [status EXCEPT ![i] = <<>>]
    /\ deleted' = deleted \ {i}
    /\ UNCHANGED <<files, rpc, res>>

RECURSIVE SumLen(_)
SumLen(S) ==
    IF S = {} THEN 0
    ELSE LET i == CHOOSE x \in S : TRUE IN Len(status[i]) + SumLen(S \ {i})

TotalEvents == SumLen(Ids)

AppendEvent(i) ==
    /\ info[i] # None
    /\ TotalEvents < MaxStatus
    /\ \E e \in LifeEvents : status' = [status EXCEPT ![i] = Append(@, e)]
    /\ UNCHANGED <<info, files, rpc, res, deleted>>

(***************************************************************************)
(* get_prg_file: the three gateway reads are separate steps                *)
(***************************************************************************)
get_prg_file_start(task_id) ==
    /\ rpc.pc = "idle"
    /\ LET task_info == get_task_info(task_id)
       IN  IF task_info # None
           THEN /\ rpc' = [pc |-> "last", id |-> task_id, task_info |-> task_info,
                           last_status |-> None]
                /\ res' = res
           ELSE LET l == LegacyGet(task_id, files)
                IN  /\ res' = Res("get", task_id, FALSE, TryExcept(l.c), l.fs,
                                  <<>>, None, <<>>, deleted)
                    /\ rpc' = rpc
    /\ UNCHANGED <<info, status, files, deleted>>

get_prg_file_last ==
    /\ rpc.pc = "last"
    /\ rpc' = [rpc EXCEPT !.pc = "all", !.last_status = get_last_task_status(rpc.id)]
    /\ UNCHANGED <<info, status, files, res, deleted>>

get_prg_file_all ==
    /\ rpc.pc = "all"
    /\ LET all_statuses == get_task_status(rpc.id)
           c == CurrentView(rpc.id, rpc.task_info, rpc.last_status, all_statuses)
       IN  res' = Res("get", rpc.id, TRUE, TryExcept(c), <<>>, <<>>, None,
                      all_statuses, {})
    /\ rpc' = Idle
    /\ UNCHANGED <<info, status, files, deleted>>

(***************************************************************************)
(* delete_prg_file                                                         *)
(***************************************************************************)
delete_prg_file(task_id) ==
    LET task_info == get_task_info(task_id)
    IN  IF task_info # None
        THEN \E cancel_result \in cancel_task_results :
                IF cancel_result = GatewayRaises
                THEN /\ res' = Res("delete", task_id, TRUE,
                                   TryExcept(Raise("Exception", "cancel failed")),
                                   <<>>, <<"cancel_task">>, cancel_result, <<>>, {})
                     /\ UNCHANGED <<info, status, files, rpc, deleted>>
                ELSE /\ info' = [info EXCEPT ![task_id] = None]
                     /\ status' = [status EXCEPT ![task_id] = <<>>]
                     /\ deleted' = deleted \cup {task_id}
                     /\ res' = Res("delete", task_id, TRUE,
                                   [code |-> 200, body |-> Json([message |->
                                      "Task " \o IdText(task_id)
                                      \o " deleted successfully"])],
                                   <<>>,
                                   <<"cancel_task", "delete info", "delete status">>,
                                   cancel_result, <<>>, {})
                     /\ UNCHANGED <<files, rpc>>
        ELSE LET l == LegacyDelete(task_id, files)
             IN  /\ files' = IF l.remove THEN [files EXCEPT ![task_id] = NoFile]
                             ELSE files
                 /\ res' = Res("delete", task_id, FALSE, TryExcept(l.c), l.fs,
                               <<>>, None, <<>>, {})
                 /\ UNCHANGED <<info, status, rpc, deleted>>

(***************************************************************************)
(* list_prg_files                                                          *)
(***************************************************************************)
list_prg_files ==
    LET tasks == get_all_tasks
        task_ids == [k \in 1..Len(tasks) |-> tasks[k].task_id]
        entries == SelectSeq(IdOrder, LAMBDA i : files[i].exists /\ EndsWithPrg(i))
        prg_files == [k \in 1..Len(entries) |-> IdText(entries[k])]
    IN  /\ res' = Res("list", <<>>, FALSE,
                      [code |-> 200, body |-> IdList(task_ids \o prg_files)],
                      <<"isdir", "scandir">>, <<>>, None, <<>>, deleted)
        /\ UNCHANGED <<info, status, files, rpc, deleted>>

(***************************************************************************)
(* retry_task_endpoint, cancel_task_endpoint                               *)
(***************************************************************************)
Unsupported(message) == Json([status |-> "error", message |-> message])

\* a retry endpoint that rejects a legacy identifier with abort(400) inside
\* its try block, where except Exception turns it into a 500
retry_task_endpoint_abort(task_id) ==
    LET task_info == get_task_info(task_id)
    IN  /\ IF task_info # None
           THEN \E result \in retry_task_results :
                   res' = Res("retry", task_id, TRUE,
                              TryExceptAll(IF result = GatewayRaises
                                           THEN Raise("Exception", "retry failed")
                                           ELSE Return(200, Json(result))),
                              <<>>, <<"retry_task">>, result, <<>>, {})
           ELSE res' = Res("retry", task_id, FALSE,
                           TryExceptAll(abort(400, "Retry is not supported")),
                           <<>>, <<>>, None, <<>>, {})
        /\ UNCHANGED <<info, status, files, rpc, deleted>>

retry_task_endpoint(task_id) ==
    LET task_info == get_task_info(task_id)
    IN  /\ IF task_info # None
           THEN \E result \in retry_task_results :
                   res' = Res("retry", task_id, TRUE,
                              TryExceptAll(IF result = GatewayRaises
                                           THEN Raise("Exception", "retry failed")
                                           ELSE Return(200, Json(result))),
                              <<>>, <<"retry_task">>, result, <<>>, {})
           ELSE res' = Res("retry", task_id, FALSE,
                           [code |-> 400, body |-> Unsupported(
                              "Retry for old system is not supported in the new API. Please use the new task ID format.")],
                           <<>>, <<>>, None, <<>>, {})
        /\ UNCHANGED <<info, status, files, rpc, deleted>>

cancel_task_endpoint(task_id) ==
    LET task_info == get_task_info(task_id)
    IN  /\ IF task_info # None
           THEN \E result \in cancel_task_results :
                   res' = Res("cancel", task_id, TRUE,
                              TryExceptAll(IF result = GatewayRaises
                                           THEN Raise("Exception", "cancel failed")
                                           ELSE Return(200, Json(result))),
                              <<>>, <<"cancel_task">>, result, <<>>, {})
           ELSE res' = Res("cancel", task_id, FALSE,
                           [code |-> 400, body |-> Unsupported(
                              "Cancellation for old system is not supported in the new API. Please use the new task ID format.")],
                           <<>>, <<>>, None, <<>>, {})
        /\ UNCHANGED <<info, status, files, rpc, deleted>>

(***************************************************************************)
(* Specifications                                                          *)
(***************************************************************************)
Next ==
    \/ \E i \in Ids : Submit(i)
    \/ \E i \in Ids : AppendEvent(i)
    \/ \E i \in Ids : get_prg_file_start(i)
    \/ get_prg_file_last
    \/ get_prg_file_all
    \/ \E i \in Ids : delete_prg_file(i)
    \/ list_prg_files
    \/ \E i \in Ids : retry_task_endpoint(i)
    \/ \E i \in Ids : cancel_task_endpoint(i)

Spec == Init /\ [][Next]_vars

NextView ==
    \/ get_prg_file_start(T1)
    \/ get_prg_file_last
    \/ get_prg_file_all

SpecView == InitView /\ [][NextView]_vars

NextLegacy == \E i \in LegacyNames : get_prg_file_start(i)

SpecLegacy == InitLegacy /\ [][NextLegacy]_vars

(***************************************************************************)
(* Properties                                                              *)
(***************************************************************************)
Range(f) == {f[k] : k \in DOMAIN f}

Traversal(i) == HasDotDot(i) \/ HasSlash(i)

\* C1: a fetch or delete of an identifier unknown to the current system that
\* contains '..' or '/' ends with Invalid-Request (400) and performs no
\* legacy file operation.
C1_TraversalRejected ==
    (res.op \in {"get", "delete"} /\ ~res.known /\ Traversal(res.id))
        => (res.code = 400 /\ res.fs = <<>>)

\* C2: delete of an unknown identifier without traversal: no '.prg' suffix
\* gives Invalid-Request, a missing '.prg' file gives Not-Found, an existing
\* file is removed with success; the failing cases remove nothing.
C2_LegacyDeleteOutcomes ==
    [][\A i \in Ids :
         (delete_prg_file(i) /\ info[i] = None /\ ~Traversal(i))
            => IF ~EndsWithPrg(i)
               THEN res'.code = 400 /\ UNCHANGED <<files, info, status>>
               ELSE IF ~files[i].exists
               THEN res'.code = 404 /\ UNCHANGED <<files, info, status>>
               ELSE res'.code = 200 /\ ~files'[i].exists]_vars

C4_DeleteDespiteCancelFailure ==
    (res.op = "delete" /\ res.known)
        => /\ res.code = 200
           /\ res.gw = <<"cancel_task", "delete info", "delete status">>

\* C9: retry and cancel of an identifier unknown to the current system answer
\* the Unsupported-Operation payload (never Internal), call no gateway
\* operation and change no record or file; for a known identifier the gateway
\* operation is called exactly once and its outcome is returned verbatim.
C9_RetryCancelRouting ==
    [][\A i \in Ids :
         /\ retry_task_endpoint(i)
               => IF info[i] = None
                  THEN /\ res'.code = 400
                       /\ res'.body.json.status = "error"
                       /\ res'.gw = <<>>
                       /\ UNCHANGED <<info, status, files>>
                  ELSE /\ res'.gw = <<"retry_task">>
                       /\ res'.gwout # GatewayRaises
                             => (res'.code = 200 /\ res'.body = Json(res'.gwout))
         /\ cancel_task_endpoint(i)
               => IF info[i] = None
                  THEN /\ res'.code = 400
                       /\ res'.body.json.status = "error"
                       /\ res'.gw = <<>>
                       /\ UNCHANGED <<info, status, files>>
                  ELSE /\ res'.gw = <<"cancel_task">>
                       /\ res'.gwout # GatewayRaises
                             => (res'.code = 200 /\ res'.body = Json(res'.gwout))]_vars

\* C9 witness: a retry of the legacy identifier a.prg, whose file exists,
\* was answered with the Unsupported-Operation payload.
C9_Witness ==
    /\ res.op = "retry"
    /\ res.id = APRG
    /\ files[APRG].exists
    /\ res.code = 400
    /\ res.body.json.status = "error"

\* C10: a view of a current-system job describes one snapshot of the history:
\* last_line is the last of exactly status_count events (null when there are
\* none), and the history the 'processing' fallback scanned ends with it.
C10_SingleSnapshot ==
    (res.op = "get" /\ res.known /\ res.code = 200)
        => /\ res.body.view.status_count = Len(res.scanned)
           /\ (res.body.view.last_line = None) <=> (res.body.view.status_count = 0)
           /\ Len(res.scanned) > 0
                 => res.body.view.last_line = res.scanned[Len(res.scanned)]

\* the view of the last current-system resolution
ResolvedCurrent == res.op = "get" /\ res.known

\* the latest event carries status st, a track name and known track counts
LatestWithCounts(st) ==
    /\ ResolvedCurrent
    /\ res.code = 200
    /\ Get(res.body.view.last_line, "status", "") = st
    /\ TruthyStr(res.body.view.last_line, "track")
    /\ Get(res.body.view.last_line, "parsed_current_track", 0) # 0
    /\ Get(res.body.view.last_line, "parsed_total_tracks", 0) # 0

TrackFields ==
    {"current_track", "track_number", "total_tracks", "progress_percent", "album"}

DownloadingMessage(e) ==
    "Downloading track " \o ToString(e.parsed_current_track) \o "/"
    \o ToString(e.parsed_total_tracks) \o " ("
    \o ToString(Get(e, "overall_progress", 0)) \o "%): " \o e.track

\* C5: with metadata and N events, none appended or deleted during the call,
\* resolve succeeds with status_count = N; N = 0 gives last_line null, no
\* event field and no progress_message; N > 0 gives the most recent event as
\* last_line and an event field.
C5_CountAndLastLine ==
    ResolvedCurrent
        => LET n == Len(status[res.id])
           IN  /\ res.code = 200
               /\ res.body.view.status_count = n
               /\ n = 0 => /\ res.body.view.last_line = None
                           /\ "event" \notin DOMAIN res.body.view
                           /\ "progress_message" \notin DOMAIN res.body.view
               /\ n > 0 => /\ res.body.view.last_line = status[res.id][n]
                           /\ "event" \in DOMAIN res.body.view

\* C6: a latest event with status track_progress, a track name and known
\* counts C and T is classified 'progress', exposes the track fields and is
\* rendered 'Downloading track C/T (P%): <track>' with P its overall_progress.
C6_TrackProgressMessage ==
    LatestWithCounts("track_progress")
        => LET v == res.body.view
           IN  /\ v.event = "progress"
               /\ TrackFields \subseteq DOMAIN v
               /\ v.progress_message = DownloadingMessage(v.last_line)

\* C6 as amended: the track fields and the 'Downloading track C/T (P%):
\* <track>' message belong to a latest event with status 'progress', whose
\* category is 'update'; a track_progress event is classified 'progress',
\* gets none of the track fields, and its message is its own message or
\* 'Status: track_progress'.
C6_Amended ==
    /\ LatestWithCounts("progress")
          => LET v == res.body.view
                 e == v.last_line
             IN  /\ v.event = "update"
                 /\ TrackFields \subseteq DOMAIN v
                 /\ v.current_track = e.track
                 /\ v.track_number = e.parsed_current_track
                 /\ v.total_tracks = e.parsed_total_tracks
                 /\ v.progress_percent = Get(e, "overall_progress", 0)
                 /\ v.album = Get(e, "album", "")
                 /\ v.progress_message = DownloadingMessage(e)
    /\ LatestWithCounts("track_progress")
          => LET v == res.body.view
             IN  /\ v.event = "progress"
                 /\ TrackFields \cap DOMAIN v = {}
                 /\ v.progress_message =
                       Get(v.last_line, "message", "Status: track_progress")

\* C6 witness: the event track='Song A', 3 of 10, overall_progress 25 with
\* status 'progress' was resolved to the exact message.
C6_Witness ==
    /\ ResolvedCurrent
    /\ res.code = 200
    /\ res.body.view.last_line = EvProgress
    /\ res.body.view.progress_message = "Downloading track 3/10 (25%): Song A"

\* the most recent event of h with status 'progress' and a track (0: none)
MostRecentProgress(h) ==
    LET M == {j \in 1..Len(h) : Get(h[j], "status", "") = "progress"
                                 /\ TruthyStr(h[j], "track")}
    IN  IF M = {} THEN 0 ELSE CHOOSE j \in M : \A l \in M : l <= j

\* the raw value splits on '/' into exactly two integers with a non-zero total
TwoIntParts(raw) ==
    /\ Has(raw, "str")
    /\ Len(Split(raw.str)) = 2
    /\ ParseInt(Split(raw.str)[1]) >= 0
    /\ ParseInt(Split(raw.str)[2]) > 0

\* C7: a latest 'processing' event takes the most recent 'progress' event
\* with a track; a current_track of exactly two integers c/t gives
\* track_number, total_tracks, progress_percent = min(floor(c/t*100), 100)
\* and 'Processing track c/t: <track>'; every other value gives the text-only
\* 'Processing: <track>' without numeric fields, and resolve still succeeds.
C7_ProcessingFallback ==
    LET h == status[res.id]
        k == MostRecentProgress(h)
    IN  (/\ ResolvedCurrent
         /\ Len(h) > 0
         /\ Get(h[Len(h)], "status", "") = "processing"
         /\ k > 0)
        => LET raw == Get(h[k], "current_track", Str(<<>>))
               track == h[k].track
           IN  /\ res.code = 200
               /\ IF TwoIntParts(raw)
                  THEN LET c == ParseInt(Split(raw.str)[1])
                           t == ParseInt(Split(raw.str)[2])
                       IN  /\ res.body.view.track_number = c
                           /\ res.body.view.total_tracks = t
                           /\ res.body.view.progress_percent =
                                 Min((c * 100) \div t, 100)
                           /\ res.body.view.progress_message =
                                 "Processing track " \o ToString(c) \o "/"
                                 \o ToString(t) \o ": " \o track
                  ELSE /\ res.body.view.progress_message = "Processing: " \o track
                       /\ {"track_number", "total_tracks", "progress_percent"}
                             \cap DOMAIN res.body.view = {}

\* the last resolution read a non-empty legacy file
ResolvedLegacy ==
    /\ res.op = "get"
    /\ ~res.known
    /\ res.id \in LegacyNames
    /\ files[res.id].exists
    /\ files[res.id].lines # <<>>

\* the object on a line, or None when the line is no JSON object
ObjectOn(line) ==
    IF JsonLoads(line).ok /\ IsObj(JsonLoads(line).v) THEN JsonLoads(line).v
    ELSE None

FieldOfLine2(lines, k) ==
    IF Len(lines) > 1 /\ ObjectOn(lines[2]) # None
    THEN Get(ObjectOn(lines[2]).obj, k, JStr(""))
    ELSE JStr("")

LastLineAsJson(lines) ==
    IF JsonLoads(lines[Len(lines)]).ok THEN JsonLoads(lines[Len(lines)]).v
    ELSE JStr(lines[Len(lines)])

\* C8: a non-empty legacy file resolves to a view with original_request from
\* line 1 (its original_request field, or line 1 itself), type/name/artist
\* from line 2 (blank when missing or unparsable), each display_* equal to
\* the display_* field of original_request when present and otherwise to the
\* extracted name/type/artist, last_line the last line decoded or raw, and
\* event 'unknown'; malformed JSON never fails the resolution.
C8_LegacyView ==
    ResolvedLegacy
        => LET lines == files[res.id].lines
               first == ObjectOn(lines[1])
               v == res.body.legacy
               disp(dk, extracted) ==
                   IF IsObj(v.original_request) /\ Has(v.original_request.obj, dk)
                   THEN v.original_request.obj[dk]
                   ELSE extracted
           IN  /\ res.code = 200
               /\ first # None
                     => v.original_request =
                           (IF Has(first.obj, "original_request")
                            THEN (IF first.obj["original_request"] = JNull
                                  THEN None ELSE first.obj["original_request"])
                            ELSE first)
               /\ v.type = FieldOfLine2(lines, "type")
               /\ v.name = FieldOfLine2(lines, "name")
               /\ v.artist = FieldOfLine2(lines, "artist")
               /\ v.display_title = disp("display_title", v.name)
               /\ v.display_type = disp("display_type", v.type)
               /\ v.display_artist = disp("display_artist", v.artist)
               /\ v.last_line = LastLineAsJson(lines)
               /\ v.event = "unknown"

\* the original_request the reader keeps: the original_request field of the
\* object on line 1, or that object itself; null when line 1 is no JSON
\* object or the value is a non-empty value that is no mapping
KeptRequest(lines) ==
    LET first == ObjectOn(lines[1])
        o == IF Has(first.obj, "original_request")
             THEN first.obj["original_request"] ELSE first
    IN  IF first = None THEN None
        ELSE IF o = JNull THEN None
        ELSE IF Truthy(o) /\ ~IsObj(o) THEN None
        ELSE o

\* C8 as amended: as C8, but original_request is null when line 1 is no JSON
\* object or its original_request is a non-empty value that is no mapping,
\* and each display_* falls back to original_request's own name/type/artist
\* field (blank when that is absent too, or when original_request is empty
\* or null), never to the values extracted from line 2.
C8_Amended ==
    ResolvedLegacy
        => LET lines == files[res.id].lines
               v == res.body.legacy
               o == KeptRequest(lines)
               disp(dk, k) ==
                   IF IsObj(o) THEN Get(o.obj, dk, Get(o.obj, k, JStr("")))
                   ELSE JStr("")
           IN  /\ res.code = 200
               /\ v.original_request = o
               /\ v.type = FieldOfLine2(lines, "type")
               /\ v.name = FieldOfLine2(lines, "name")
               /\ v.artist = FieldOfLine2(lines, "artist")
               /\ v.display_title = disp("display_title", "name")
               /\ v.display_type = disp("display_type", "type")
               /\ v.display_artist = disp("display_artist", "artist")
               /\ v.last_line = LastLineAsJson(lines)
               /\ v.event = "unknown"

\* C8 witness: the file {"display_title":"X"} / {"type":"album",...} /
\* {"status":"complete"} was resolved.
C8_Witness ==
    /\ ResolvedLegacy
    /\ files[res.id].lines = <<LnDisplay, LnDescr, LnComplete>>
    /\ res.code = 200
    /\ res.body.legacy.display_title = JStr("X")
    /\ res.body.legacy.type = JStr("album")
    /\ res.body.legacy.event = "unknown"
    /\ res.body.legacy.last_line = JObj([status |-> JStr("complete")])

====
